---- MODULE Spec2Model ----
(***************************************************************************)
(* plover/oslayer/linux: the libevdev keyboard emulation backend           *)
(* (keyboardcontrol_libevdev.py) and the facade that prefers it and falls  *)
(* back to the X11 backend (keyboardcontrol.py).                           *)
(*                                                                         *)
(* Characters are modelled by their code points (ord), key codes by their  *)
(* EV_KEY names, and an InputEvent by a record [code, value] with value 1  *)
(* for a press and 0 for a release.                                        *)
(***************************************************************************)
EXTENDS Integers, Sequences, FiniteSets, TLC

VARIABLES
    char,          \* encoder harness: the character last encoded (-1: none)
    events,        \* encoder harness: list(_char_to_input_events(char))
    ke_init,       \* facade KeyboardEmulation.__init__: "pending" | "ok" | "raised"
    ke_delegate,   \* facade KeyboardEmulation._delegate: "unbound" | "libevdev" | "x11"
    ev_ke_calls,   \* number of ev_ke() constructions
    x11_ke_calls,  \* number of x11_ke() constructions
    evdev,         \* libevdev KeyboardEmulation._evdev: "none" | "uinput"
    kc_init,       \* facade KeyboardCapture.__init__: "pending" | "ok" | "raised"
    kc_delegate,   \* facade KeyboardCapture._delegate
    ev_kc_calls,   \* number of ev_kc() constructions
    x11_kc_calls,  \* number of x11_kc() constructions
    last,          \* the last operation called: [op, backend, string, count, result]
    sends,         \* the Device.send_events calls of the last operation: <<[events, ok]>>
    held,          \* key codes pressed and not yet released in the stream handed to the device
    overlap        \* TRUE once some key code was pressed while already pressed

vars == <<char, events, ke_init, ke_delegate, ev_ke_calls, x11_ke_calls, evdev,
          kc_init, kc_delegate, ev_kc_calls, x11_kc_calls, last, sends, held, overlap>>

facade_vars == <<ke_init, ke_delegate, ev_ke_calls, x11_ke_calls, evdev,
                 kc_init, kc_delegate, ev_kc_calls, x11_kc_calls>>

\* Bounds of the model.
MaxStrLen == 2
MaxCount == 3
MaxCodePoint == 8364

----------------------------------------------------------------------------
\* Events (keyboardcontrol_libevdev.py:34-61)

InputEvent(code, value) == [code |-> code, value |-> value]

SYN_REPORT == InputEvent("SYN_REPORT", 0)
LEFT_SHIFT_PRESS == InputEvent("KEY_LEFTSHIFT", 1)
LEFT_SHIFT_RELEASE == InputEvent("KEY_LEFTSHIFT", 0)
BACKSPACE_PRESS == InputEvent("KEY_BACKSPACE", 1)
BACKSPACE_RELEASE == InputEvent("KEY_BACKSPACE", 0)

UNICODE_INPUT_INIT_EVENT_SEQUENCE ==
    << InputEvent("KEY_LEFTCTRL", 1),
       LEFT_SHIFT_PRESS,
       SYN_REPORT,
       InputEvent("KEY_U", 1),
       SYN_REPORT,
       InputEvent("KEY_U", 0),
       SYN_REPORT >>

UNICODE_INPUT_END_EVENT_SEQUENCE_unbalanced ==
    << InputEvent("KEY_LEFTCTRL", 0),
       SYN_REPORT >>

UNICODE_INPUT_END_EVENT_SEQUENCE ==
    << LEFT_SHIFT_RELEASE,
       InputEvent("KEY_LEFTCTRL", 0),
       SYN_REPORT >>

_press_and_release(code) ==
    << InputEvent(code, 1), SYN_REPORT, InputEvent(code, 0), SYN_REPORT >>

_shift_press_and_release_early_release(code) ==
    << LEFT_SHIFT_PRESS, InputEvent(code, 1), LEFT_SHIFT_RELEASE, SYN_REPORT,
       InputEvent(code, 0), SYN_REPORT >>

_shift_press_and_release(code) ==
    << LEFT_SHIFT_PRESS, InputEvent(code, 1), SYN_REPORT,
       InputEvent(code, 0), LEFT_SHIFT_RELEASE, SYN_REPORT >>

\* The items of the direct table's literal, each << ord(character), events >>
\* (keyboardcontrol_libevdev.py:63-161).
LATIN_CHAR_TO_INPUT_EVENTS_ITEMS ==
    <<
       << 10, _press_and_release("KEY_ENTER") >>,
       << 9, _press_and_release("KEY_TAB") >>,
       << 32, _press_and_release("KEY_SPACE") >>,
       << 33, _shift_press_and_release("KEY_1") >>,
       << 34, _shift_press_and_release("KEY_APOSTROPHE") >>,
       << 35, _shift_press_and_release("KEY_3") >>,
       << 36, _shift_press_and_release("KEY_4") >>,
       << 37, _shift_press_and_release("KEY_5") >>,
       << 38, _shift_press_and_release("KEY_7") >>,
       << 39, _press_and_release("KEY_APOSTROPHE") >>,
       << 40, _shift_press_and_release("KEY_9") >>,
       << 41, _shift_press_and_release("KEY_0") >>,
       << 42, _shift_press_and_release("KEY_8") >>,
       << 43, _shift_press_and_release("KEY_0") >>,
       << 44, _shift_press_and_release("KEY_EQUAL") >>,
       << 45, _press_and_release("KEY_MINUS") >>,
       << 46, _press_and_release("KEY_DOT") >>,
       << 47, _press_and_release("KEY_SLASH") >>,
       << 48, _press_and_release("KEY_0") >>,
       << 49, _press_and_release("KEY_1") >>,
       << 50, _press_and_release("KEY_2") >>,
       << 51, _press_and_release("KEY_3") >>,
       << 52, _press_and_release("KEY_4") >>,
       << 53, _press_and_release("KEY_5") >>,
       << 54, _press_and_release("KEY_6") >>,
       << 55, _press_and_release("KEY_7") >>,
       << 56, _press_and_release("KEY_8") >>,
       << 57, _press_and_release("KEY_9") >>,
       << 58, _shift_press_and_release("KEY_SEMICOLON") >>,
       << 59, _press_and_release("KEY_SEMICOLON") >>,
       << 60, _shift_press_and_release("KEY_COMMA") >>,
       << 61, _press_and_release("KEY_EQUAL") >>,
       << 62, _shift_press_and_release("KEY_DOT") >>,
       << 63, _shift_press_and_release("KEY_SLASH") >>,
       << 64, _shift_press_and_release("KEY_2") >>,
       << 65, _shift_press_and_release("KEY_A") >>,
       << 66, _shift_press_and_release("KEY_B") >>,
       << 67, _shift_press_and_release("KEY_C") >>,
       << 68, _shift_press_and_release("KEY_D") >>,
       << 69, _shift_press_and_release("KEY_E") >>,
       << 70, _shift_press_and_release("KEY_F") >>,
       << 71, _shift_press_and_release("KEY_G") >>,
       << 72, _shift_press_and_release("KEY_H") >>,
       << 73, _shift_press_and_release("KEY_I") >>,
       << 74, _shift_press_and_release("KEY_J") >>,
       << 75, _shift_press_and_release("KEY_K") >>,
       << 76, _shift_press_and_release("KEY_L") >>,
       << 77, _shift_press_and_release("KEY_M") >>,
       << 78, _shift_press_and_release("KEY_N") >>,
       << 79, _shift_press_and_release("KEY_O") >>,
       << 80, _shift_press_and_release("KEY_P") >>,
       << 81, _shift_press_and_release("KEY_Q") >>,
       << 82, _shift_press_and_release("KEY_R") >>,
       << 83, _shift_press_and_release("KEY_S") >>,
       << 84, _shift_press_and_release("KEY_T") >>,
       << 85, _shift_press_and_release("KEY_U") >>,
       << 86, _shift_press_and_release("KEY_V") >>,
       << 87, _shift_press_and_release("KEY_W") >>,
       << 88, _shift_press_and_release("KEY_X") >>,
       << 89, _shift_press_and_release("KEY_Y") >>,
       << 90, _shift_press_and_release("KEY_Z") >>,
       << 91, _press_and_release("KEY_LEFTBRACE") >>,
       << 92, _press_and_release("KEY_BACKSLASH") >>,
       << 93, _press_and_release("KEY_RIGHTBRACE") >>,
       << 94, _shift_press_and_release("KEY_6") >>,
       << 95, _shift_press_and_release("KEY_MINUS") >>,
       << 96, _press_and_release("KEY_GRAVE") >>,
       << 97, _press_and_release("KEY_A") >>,
       << 98, _press_and_release("KEY_B") >>,
       << 99, _press_and_release("KEY_C") >>,
       << 100, _press_and_release("KEY_D") >>,
       << 101, _press_and_release("KEY_E") >>,
       << 102, _press_and_release("KEY_F") >>,
       << 103, _press_and_release("KEY_G") >>,
       << 104, _press_and_release("KEY_H") >>,
       << 105, _press_and_release("KEY_I") >>,
       << 106, _press_and_release("KEY_J") >>,
       << 107, _press_and_release("KEY_K") >>,
       << 108, _press_and_release("KEY_L") >>,
       << 109, _press_and_release("KEY_M") >>,
       << 110, _press_and_release("KEY_N") >>,
       << 111, _press_and_release("KEY_O") >>,
       << 112, _press_and_release("KEY_P") >>,
       << 113, _press_and_release("KEY_Q") >>,
       << 114, _press_and_release("KEY_R") >>,
       << 115, _press_and_release("KEY_S") >>,
       << 116, _press_and_release("KEY_T") >>,
       << 117, _press_and_release("KEY_U") >>,
       << 118, _press_and_release("KEY_V") >>,
       << 119, _press_and_release("KEY_W") >>,
       << 120, _press_and_release("KEY_X") >>,
       << 121, _press_and_release("KEY_Y") >>,
       << 122, _press_and_release("KEY_Z") >>,
       << 123, _shift_press_and_release("KEY_LEFTBRACE") >>,
       << 124, _shift_press_and_release("KEY_BACKSLASH") >>,
       << 125, _shift_press_and_release("KEY_RIGHTBRACE") >>,
       << 126, _shift_press_and_release("KEY_GRAVE") >>
    >>

\* The dict built from the literal: keyed by character, a later item of the
\* same key replacing an earlier one.
LATIN_CHAR_TO_INPUT_EVENTS_DICT ==
    LET items == LATIN_CHAR_TO_INPUT_EVENTS_ITEMS
        last_of(c) == CHOOSE i \in 1..Len(items) :
                          /\ items[i][1] = c
                          /\ \A j \in 1..Len(items) : items[j][1] = c => j <= i
    IN  [c \in {items[i][1] : i \in 1..Len(items)} |-> items[last_of(c)][2]]

----------------------------------------------------------------------------
\* '%x' % n (keyboardcontrol_libevdev.py:219): the digits of n in base 16,
\* most significant first, as the code points of "0123456789abcdef".

hex_digit_upper(d) == IF d < 10 THEN 48 + d ELSE 55 + d

hex_digit(d) == IF d < 10 THEN 48 + d ELSE 87 + d

RECURSIVE format_x_reversed(_)
format_x_reversed(n) ==
    IF n < 16 THEN << hex_digit(n) >>
    ELSE << hex_digit(n % 16) >> \o format_x_reversed(n \div 16)

RECURSIVE format_x(_)
format_x(n) ==
    IF n < 16 THEN << hex_digit(n) >>
    ELSE Append(format_x(n \div 16), hex_digit(n % 16))

\* itertools.chain.from_iterable over a list of event lists.
RECURSIVE chain_from_iterable(_)
chain_from_iterable(seqs) ==
    IF seqs = << >> THEN << >>
    ELSE Head(seqs) \o chain_from_iterable(Tail(seqs))

RECURSIVE _char_to_input_events(_), _char_to_unicode_sequence(_)

_char_to_input_events(c) ==
    IF c \in DOMAIN LATIN_CHAR_TO_INPUT_EVENTS_DICT
    THEN LATIN_CHAR_TO_INPUT_EVENTS_DICT[c]
    ELSE _char_to_unicode_sequence(c)

_char_to_unicode_sequence(c) ==
    LET digits == format_x(c)
    IN  chain_from_iterable(
            << UNICODE_INPUT_INIT_EVENT_SEQUENCE >>
            \o [i \in 1..Len(digits) |-> _char_to_input_events(digits[i])]
            \o << UNICODE_INPUT_END_EVENT_SEQUENCE >>)

----------------------------------------------------------------------------
\* libevdev backend, KeyboardEmulation (keyboardcontrol_libevdev.py:241-268).
\* A call's effect is the list of Device.send_events calls it makes, each with
\* the event list handed over and whether the device write returned (ok) or
\* raised, and how the call itself ended.

\* The outcomes of ev_ke(): Device(), enable() or create_uinput_device() may
\* raise (no access to /dev/uinput); self._evdev is assigned last.
EvKeOutcomes == {"ok", "Device_raises", "create_uinput_device_raises"}

ev_ke_init(outcome) ==
    [evdev  |-> IF outcome = "ok" THEN "uinput" ELSE "none",
     raised |-> outcome # "ok"]

_send_events(evs, ok) == [events |-> evs, ok |-> ok]

BACKSPACE_GROUP ==
    << BACKSPACE_PRESS, SYN_REPORT, BACKSPACE_RELEASE, SYN_REPORT >>

\* range(count)
range(count) == IF count > 0 THEN 1..count ELSE {}

ev_ke_send_backspaces_merged(count, fail) ==
    [sends  |-> << _send_events(
                     chain_from_iterable([i \in range(count) |-> BACKSPACE_GROUP]),
                     fail = 0) >>,
     result |-> IF fail = 0 THEN "returned" ELSE "raised"]

\* fail = 0: every write returns; fail = k > 0: the k-th write raises, which
\* ends the loop and the call.
ev_ke_send_backspaces(count, fail) ==
    LET n == IF fail = 0 THEN Cardinality(range(count)) ELSE fail
    IN  [sends  |-> [i \in 1..n |-> _send_events(BACKSPACE_GROUP, i # fail)],
         result |-> IF fail = 0 THEN "returned" ELSE "raised"]

ev_ke_send_string_per_char(string, ok) ==
    [sends  |-> [i \in 1..Len(string) |->
                    _send_events(_char_to_input_events(string[i]), ok)],
     result |-> IF ok THEN "returned" ELSE "raised"]

ev_ke_send_string(string, ok) ==
    LET char_event_sequences ==
            [i \in 1..Len(string) |-> _char_to_input_events(string[i])]
    IN  [sends  |-> << _send_events(chain_from_iterable(char_event_sequences), ok) >>,
         result |-> IF ok THEN "returned" ELSE "raised"]

ev_ke_send_key_combination_noop(combo) ==
    [sends |-> << >>, result |-> "returned"]

ev_ke_send_key_combination(combo) ==
    [sends |-> << >>, result |-> "NotImplementedError"]

\* libevdev backend, KeyboardCapture (keyboardcontrol_libevdev.py:224-238):
\* the constructor and every method raise NotImplementedError.
EvKcMethods == {"__init__", "start", "cancel", "suppress"}

ev_kc_call(method) == "NotImplementedError"

----------------------------------------------------------------------------
\* The key state a consumer of the stream sees: the codes held down after a
\* list of events, and whether a code was pressed while already held.

\* Whether code k is held just before the i-th event of evs, given the codes
\* held before the first.
HeldBefore(evs, held0, i, k) ==
    LET prev == {j \in 1..(i - 1) : evs[j].code = k}
    IN  IF prev = {} THEN k \in held0
        ELSE \E j \in prev : evs[j].value = 1 /\ \A m \in prev : m <= j

KeyState(evs, st) ==
    LET n == Len(evs)
        codes == {evs[i].code : i \in 1..n} \ {"SYN_REPORT"}
    IN  [held    |-> {k \in st.held \cup codes : HeldBefore(evs, st.held, n + 1, k)},
         overlap |-> \/ st.overlap
                     \/ \E i \in 1..n :
                            /\ evs[i].code # "SYN_REPORT"
                            /\ evs[i].value = 1
                            /\ HeldBefore(evs, st.held, i, evs[i].code)]

AllEvents(ss) == chain_from_iterable([i \in 1..Len(ss) |-> ss[i].events])

----------------------------------------------------------------------------
\* Inputs.

DirectChars == DOMAIN LATIN_CHAR_TO_INPUT_EVENTS_DICT

\* Code points beyond MaxCodePoint the encoder is also tried on: the ends of
\* the basic plane, an emoji, and the last code point.
HighChars == {65535, 65536, 128512, 1114111}

Chars == (0..MaxCodePoint) \cup HighChars

\* Characters of the strings sent: "a", "A", e-acute, the euro sign.
StrChars == {97, 65, 233, 8364}

Strings == UNION {[1..n -> StrChars] : n \in 0..MaxStrLen}

Counts == (-2)..MaxCount

Combos == {"a", "Control_L(c)"}

NoCall == [op |-> "none", backend |-> "none", string |-> << >>, count |-> 0,
           result |-> "none"]

Init ==
    /\ char = -1
    /\ events = << >>
    /\ ke_init = "pending"
    /\ ke_delegate = "unbound"
    /\ ev_ke_calls = 0
    /\ x11_ke_calls = 0
    /\ evdev = "none"
    /\ kc_init = "pending"
    /\ kc_delegate = "unbound"
    /\ ev_kc_calls = 0
    /\ x11_kc_calls = 0
    /\ last = NoCall
    /\ sends = << >>
    /\ held = {}
    /\ overlap = FALSE

----------------------------------------------------------------------------
\* Encoder harness: one character through _char_to_input_events.

Encode ==
    \E c \in Chars :
        /\ char = -1
        /\ char' = c
        /\ events' = _char_to_input_events(c)
        /\ UNCHANGED <<facade_vars, last, sends, held, overlap>>

----------------------------------------------------------------------------
\* Facade (keyboardcontrol.py).

\* KeyboardEmulation.__init__ attempting ev_ke() a second time before it falls back.
KeyboardEmulation_init_retry ==
    /\ ke_init = "pending"
    /\ \E outcome \in EvKeOutcomes, x11_ok \in BOOLEAN :
         LET ev == ev_ke_init(outcome)
         IN  /\ evdev' = ev.evdev
             /\ IF ~ev.raised
                THEN /\ ev_ke_calls' = ev_ke_calls + 1
                     /\ ke_delegate' = "libevdev"
                     /\ x11_ke_calls' = x11_ke_calls
                     /\ ke_init' = "ok"
                ELSE /\ ev_ke_calls' = ev_ke_calls + 2
                     /\ x11_ke_calls' = x11_ke_calls + 1
                     /\ ke_delegate' = IF x11_ok THEN "x11" ELSE "unbound"
                     /\ ke_init' = IF x11_ok THEN "ok" ELSE "raised"
    /\ UNCHANGED <<char, events, kc_init, kc_delegate, ev_kc_calls, x11_kc_calls,
                   last, sends, held, overlap>>

\* KeyboardEmulation.__init__ (keyboardcontrol.py:34-40). x11_ok: whether the
\* X11 backend's constructor returns.
KeyboardEmulation_init ==
    /\ ke_init = "pending"
    /\ \E outcome \in EvKeOutcomes, x11_ok \in BOOLEAN :
         LET ev == ev_ke_init(outcome)
         IN  /\ ev_ke_calls' = ev_ke_calls + 1
             /\ evdev' = ev.evdev
             /\ IF ~ev.raised
                THEN /\ ke_delegate' = "libevdev"
                     /\ x11_ke_calls' = x11_ke_calls
                     /\ ke_init' = "ok"
                ELSE /\ x11_ke_calls' = x11_ke_calls + 1
                     /\ ke_delegate' = IF x11_ok THEN "x11" ELSE "unbound"
                     /\ ke_init' = IF x11_ok THEN "ok" ELSE "raised"
    /\ UNCHANGED <<char, events, kc_init, kc_delegate, ev_kc_calls, x11_kc_calls,
                   last, sends, held, overlap>>

\* KeyboardCapture.__init__ (keyboardcontrol.py:12-18).
KeyboardCapture_init ==
    /\ kc_init = "pending"
    /\ \E x11_ok \in BOOLEAN :
         LET raised == ev_kc_call("__init__") # "returned"
         IN  /\ ev_kc_calls' = ev_kc_calls + 1
             /\ IF ~raised
                THEN /\ kc_delegate' = "libevdev"
                     /\ x11_kc_calls' = x11_kc_calls
                     /\ kc_init' = "ok"
                ELSE /\ x11_kc_calls' = x11_kc_calls + 1
                     /\ kc_delegate' = IF x11_ok THEN "x11" ELSE "unbound"
                     /\ kc_init' = IF x11_ok THEN "ok" ELSE "raised"
    /\ UNCHANGED <<char, events, ke_init, ke_delegate, ev_ke_calls, x11_ke_calls,
                   evdev, last, sends, held, overlap>>

\* The effect of an emulation call on the device and on the stream.  A call
\* forwarded to the X11 backend writes nothing to the libevdev device.
Deliver(op, string, count, r) ==
    \E evs \in {AllEvents(r.sends)} :
    \E st \in {KeyState(evs, [held |-> held, overlap |-> overlap])} :
        /\ last' = [op |-> op, backend |-> ke_delegate, string |-> string,
                    count |-> count, result |-> r.result]
        /\ sends' = r.sends
        /\ held' = st.held
        /\ overlap' = st.overlap
        /\ UNCHANGED <<char, events, facade_vars>>

Forwarded == [sends |-> << >>, result |-> "x11"]

\* KeyboardEmulation.send_backspaces (keyboardcontrol.py:42-43).
KeyboardEmulation_send_backspaces ==
    /\ ke_init = "ok"
    /\ \E count \in Counts :
         IF ke_delegate = "libevdev"
         THEN \E fail \in 0..Cardinality(range(count)) :
                 Deliver("send_backspaces", << >>, count,
                         ev_ke_send_backspaces(count, fail))
         ELSE Deliver("send_backspaces", << >>, count, Forwarded)

\* KeyboardEmulation.send_string (keyboardcontrol.py:45-46).
KeyboardEmulation_send_string ==
    /\ ke_init = "ok"
    /\ \E string \in Strings :
         IF ke_delegate = "libevdev"
         THEN \E ok \in BOOLEAN :
                 Deliver("send_string", string, 0, ev_ke_send_string(string, ok))
         ELSE Deliver("send_string", string, 0, Forwarded)

\* KeyboardEmulation.send_key_combination (keyboardcontrol.py:48-49).
KeyboardEmulation_send_key_combination ==
    /\ ke_init = "ok"
    /\ \E combo \in Combos :
         IF ke_delegate = "libevdev"
         THEN Deliver("send_key_combination", << >>, 0,
                      ev_ke_send_key_combination(combo))
         ELSE Deliver("send_key_combination", << >>, 0, Forwarded)

\* KeyboardCapture.start / cancel / suppress (keyboardcontrol.py:20-27).
KeyboardCapture_call ==
    /\ kc_init = "ok"
    /\ \E method \in EvKcMethods \ {"__init__"} :
         /\ last' = [op |-> method, backend |-> kc_delegate, string |-> << >>,
                     count |-> 0,
                     result |-> IF kc_delegate = "libevdev"
                                THEN ev_kc_call(method) ELSE "x11"]
         /\ sends' = << >>
    /\ UNCHANGED <<char, events, facade_vars, held, overlap>>

\* A method of the libevdev KeyboardCapture class invoked directly, not
\* through the facade (no method reads self).
libevdev_KeyboardCapture_call ==
    \E method \in EvKcMethods :
        /\ last' = [op |-> method, backend |-> "libevdev_capture",
                    string |-> << >>, count |-> 0, result |-> ev_kc_call(method)]
        /\ sends' = << >>
        /\ UNCHANGED <<char, events, facade_vars, held, overlap>>

Next ==
    \/ KeyboardEmulation_init
    \/ KeyboardCapture_init
    \/ KeyboardEmulation_send_backspaces
    \/ KeyboardEmulation_send_string
    \/ KeyboardEmulation_send_key_combination
    \/ KeyboardCapture_call
    \/ libevdev_KeyboardCapture_call

Spec == Init /\ [][Next]_vars

EncNext == Encode

EncSpec == Init /\ [][EncNext]_vars

----------------------------------------------------------------------------
\* Vocabulary of the properties, written out independently of the encoder.

Press(k) == [code |-> k, value |-> 1]
Release(k) == [code |-> k, value |-> 0]
Marker == [code |-> "SYN_REPORT", value |-> 0]
Tap(k) == << Press(k), Marker, Release(k), Marker >>
ShiftTap(k) ==
    << Press("KEY_LEFTSHIFT"), Press(k), Marker,
       Release(k), Release("KEY_LEFTSHIFT"), Marker >>
InitSequence ==
    << Press("KEY_LEFTCTRL"), Press("KEY_LEFTSHIFT"), Marker,
       Press("KEY_U"), Marker, Release("KEY_U"), Marker >>
EndSequence ==
    << Release("KEY_LEFTSHIFT"), Release("KEY_LEFTCTRL"), Marker >>

RECURSIVE SumLens(_, _)
SumLens(seqs, k) == IF k = 0 THEN 0 ELSE SumLens(seqs, k - 1) + Len(seqs[k])

\* evs is the parts of seqs one after the other: each part sits, whole and in
\* order, right after the parts before it, and nothing else is in evs.
IsConcatenation(evs, seqs) ==
    /\ Len(evs) = SumLens(seqs, Len(seqs))
    /\ \A i \in 1..Len(seqs) :
          SubSeq(evs, SumLens(seqs, i - 1) + 1, SumLens(seqs, i)) = seqs[i]

Count(evs, k, v) == Cardinality({i \in 1..Len(evs) : evs[i] = [code |-> k, value |-> v]})

\* The minimal-length hexadecimal digits of n, most significant first.
HexLen(n) == CHOOSE k \in 1..6 : n < 16^k /\ (k = 1 \/ n >= 16^(k - 1))
HexDigits(n) == [i \in 1..HexLen(n) |-> (n \div 16^(HexLen(n) - i)) % 16]
\* ord of "0123456789abcdef"
LowerHexChars == << 48, 49, 50, 51, 52, 53, 54, 55, 56, 57, 97, 98, 99, 100, 101, 102 >>

\* C1: constructing a facade attempts the libevdev backend exactly once; if
\* that raises, the X11 backend is constructed exactly once and libevdev is
\* never attempted again by any later operation; if X11 raises too, the
\* construction fails with no backend bound and no uinput handle held.
C1_FallbackOnce ==
    /\ ke_init = "pending" =>
          ev_ke_calls = 0 /\ x11_ke_calls = 0 /\ ke_delegate = "unbound"
    /\ ke_init # "pending" => ev_ke_calls = 1
    /\ ke_delegate = "libevdev" =>
          ke_init = "ok" /\ x11_ke_calls = 0 /\ evdev = "uinput"
    /\ ke_delegate = "x11" =>
          ke_init = "ok" /\ x11_ke_calls = 1 /\ evdev = "none"
    /\ ke_init = "raised" =>
          x11_ke_calls = 1 /\ ke_delegate = "unbound" /\ evdev = "none"
    /\ ke_init = "ok" => ke_delegate \in {"libevdev", "x11"}
    /\ kc_init = "pending" =>
          ev_kc_calls = 0 /\ x11_kc_calls = 0 /\ kc_delegate = "unbound"
    /\ kc_init # "pending" => ev_kc_calls = 1
    /\ kc_delegate = "libevdev" => kc_init = "ok" /\ x11_kc_calls = 0
    /\ kc_delegate = "x11" => kc_init = "ok" /\ x11_kc_calls = 1
    /\ kc_init = "raised" => x11_kc_calls = 1 /\ kc_delegate = "unbound"
    /\ kc_init = "ok" => kc_delegate \in {"libevdev", "x11"}

\* Both facades went through the fallback, one bound X11 and was used
\* afterwards, the other failed.
C1_Witness ==
    /\ ke_delegate = "x11" /\ x11_ke_calls = 1 /\ ev_ke_calls = 1
    /\ last.op = "send_string" /\ last.backend = "x11"
    /\ kc_init = "raised"

\* C2: every character of the direct table encodes to the unshifted shape
\* [press k, SYN, release k, SYN] or the shifted shape [press LEFTSHIFT,
\* press k, SYN, release k, release LEFTSHIFT, SYN] of one key k; so its last
\* event is a SYN and presses and releases balance per key code; "A" is the
\* shifted shape of KEY_A.
C2_DirectShapes ==
    char \in DirectChars =>
        /\ Len(events) \in {4, 6}
        /\ LET k == IF Len(events) = 4 THEN events[1].code ELSE events[2].code
           IN  /\ k \notin {"SYN_REPORT", "KEY_LEFTSHIFT"}
               /\ events = Tap(k) \/ events = ShiftTap(k)
        /\ events[Len(events)] = Marker
        /\ \A i \in 1..Len(events) :
              Count(events, events[i].code, 1) = Count(events, events[i].code, 0)
                 \/ events[i] = Marker
        /\ char = 65 => events = ShiftTap("KEY_A")

C2_Witness == char = 65 /\ Len(events) = 6 /\ events[2] = Press("KEY_A")

\* C3: a character outside the direct table encodes to the init sequence,
\* then the direct-table sequence of each digit of its code point in
\* minimal-length lowercase hexadecimal, in order, then the end sequence;
\* every digit is in the direct table, so no fallback is nested.
C3_FallbackSequence ==
    (char # -1 /\ char \notin DirectChars) =>
        LET ds == HexDigits(char)
            digit_chars == [i \in 1..Len(ds) |-> LowerHexChars[ds[i] + 1]]
        IN  /\ \A i \in 1..Len(ds) : digit_chars[i] \in DirectChars
            /\ IsConcatenation(events,
                   << InitSequence >>
                   \o [i \in 1..Len(ds) |->
                          LATIN_CHAR_TO_INPUT_EVENTS_DICT[digit_chars[i]]]
                   \o << EndSequence >>)
            /\ Count(events, "KEY_LEFTCTRL", 1) = 1

\* e-acute, U+00E9: two digits, one of them a letter.
C3_Witness ==
    /\ char = 233
    /\ events = InitSequence \o Tap("KEY_E") \o Tap("KEY_9") \o EndSequence

\* C4 as stated: the euro sign encodes to a 3-event init sequence, the
\* sequences of "2", "0", "a", "c", and a 3-event end sequence, 22 events.
C4_Euro22Events ==
    char = 8364 =>
        /\ Len(events) = 3 + 4 * 4 + 3
        /\ SubSeq(events, 4, 19) =
              Tap("KEY_2") \o Tap("KEY_0") \o Tap("KEY_A") \o Tap("KEY_C")
        /\ SubSeq(events, 20, 22) = EndSequence

\* C4 amended: the euro sign encodes to the 7-event init sequence, the
\* sequences of "2", "0", "a", "c" in that order, and the 3-event end
\* sequence, with nothing in between: 7 + 4*4 + 3 = 26 events.
C4_Euro26Events ==
    char = 8364 =>
        /\ Len(InitSequence) = 7 /\ Len(EndSequence) = 3
        /\ Len(events) = 7 + 4 * 4 + 3
        /\ events = InitSequence
                    \o Tap("KEY_2") \o Tap("KEY_0") \o Tap("KEY_A") \o Tap("KEY_C")
                    \o EndSequence

C4_Witness == char = 8364 /\ Len(events) = 26

\* C5: send_string makes exactly one device send, whose events are the
\* sequences of the string's characters one after the other in text order;
\* for the empty string that one send carries no event.
C5_SendStringOneSend ==
    (last.op = "send_string" /\ last.backend = "libevdev") =>
        /\ Len(sends) = 1
        /\ IsConcatenation(sends[1].events,
               [i \in 1..Len(last.string) |-> _char_to_input_events(last.string[i])])
        /\ last.string = << >> => sends[1].events = << >>
        /\ last.result = IF sends[1].ok THEN "returned" ELSE "raised"

\* "A" then the euro sign: a shifted character followed by a fallback one.
C5_Witness ==
    /\ last.op = "send_string" /\ last.backend = "libevdev"
    /\ last.string = << 65, 8364 >>
    /\ last.result = "returned"
    /\ Len(sends) = 1 /\ Len(sends[1].events) = 32

\* C6: send_backspaces(count), count >= 0, sends the 4-event backspace group
\* count times, one send each; when the k-th send raises, the k-1 sends
\* before it were delivered whole and none follows; count = 0 sends nothing.
C6_BackspaceGroups ==
    (last.op = "send_backspaces" /\ last.backend = "libevdev" /\ last.count >= 0) =>
        /\ \A i \in 1..Len(sends) : sends[i].events = Tap("KEY_BACKSPACE")
        /\ last.result \in {"returned", "raised"}
        /\ last.result = "returned" =>
              Len(sends) = last.count /\ \A i \in 1..Len(sends) : sends[i].ok
        /\ last.result = "raised" =>
              /\ Len(sends) \in 1..last.count
              /\ ~sends[Len(sends)].ok
              /\ \A i \in 1..(Len(sends) - 1) : sends[i].ok
        /\ last.count = 0 => sends = << >> /\ last.result = "returned"

\* The second of three sends raised: one group delivered, the third never sent.
C6_Witness ==
    /\ last.op = "send_backspaces" /\ last.backend = "libevdev"
    /\ last.count = 3 /\ last.result = "raised"
    /\ Len(sends) = 2 /\ sends[1].ok /\ ~sends[2].ok

\* C7: send_backspaces with a negative count reports an error to the caller
\* and sends nothing.
C7_NegativeCountFailsFast ==
    (last.op = "send_backspaces" /\ last.backend = "libevdev" /\ last.count < 0) =>
        /\ last.result # "returned"
        /\ sends = << >>

\* C8: in the stream of any sequence of send_string and send_backspaces calls
\* no key code is pressed while it is held, no key is held once a call has
\* returned, and within each character's sequence LEFTSHIFT and LEFTCTRL are
\* released before its final SYN.
C8_NoOverlapNoneHeld ==
    /\ ~overlap
    /\ last.result = "returned" => held = {}
    /\ (last.op = "send_string" /\ last.backend = "libevdev") =>
          \A i \in 1..Len(last.string) :
             LET e == _char_to_input_events(last.string[i])
                 before == KeyState(SubSeq(e, 1, Len(e) - 1),
                                    [held |-> {}, overlap |-> FALSE])
             IN  /\ e[Len(e)] = Marker
                 /\ before.held \cap {"KEY_LEFTSHIFT", "KEY_LEFTCTRL"} = {}
                 /\ ~before.overlap

\* A fallback character followed by a shifted one, sent and returned.
C8_Witness ==
    /\ last.op = "send_string" /\ last.backend = "libevdev"
    /\ last.string = << 8364, 65 >>
    /\ last.result = "returned" /\ sends[1].ok
    /\ Count(sends[1].events, "KEY_LEFTSHIFT", 1) = 2

\* C9: on the libevdev backend send_key_combination and the capture
\* operations end in NotImplementedError, send_key_combination writing
\* nothing; the libevdev capture constructor raises, so a capture facade is
\* never bound to libevdev: once constructed it is bound to X11.
C9_NotImplemented ==
    /\ (last.op = "send_key_combination" /\ last.backend = "libevdev") =>
          last.result = "NotImplementedError" /\ sends = << >>
    /\ (last.backend = "libevdev_capture"
          \/ (last.backend = "libevdev" /\ last.op \in EvKcMethods)) =>
          last.result = "NotImplementedError"
    /\ kc_delegate # "libevdev"
    /\ kc_init # "pending" => x11_kc_calls = 1
    /\ kc_init = "ok" => kc_delegate = "x11"

C9_Witness ==
    /\ last.op = "send_key_combination" /\ last.backend = "libevdev"
    /\ last.result = "NotImplementedError"
    /\ kc_init = "ok" /\ kc_delegate = "x11"

\* C10: two distinct characters of the direct table never encode to the same
\* event sequence.
C10_DirectInjective ==
    char \in DirectChars =>
        \A d \in DirectChars :
            d # char => LATIN_CHAR_TO_INPUT_EVENTS_DICT[d] # events

====
